---- MODULE Spec2Model ----
(***************************************************************************)
(* State-machine model of the three scrapers of the repository:            *)
(*   - PlayerURLScraper  (scrape_player_urls.py)  : offset-paginated list  *)
(*   - SoFIFAScraper     (sofifa_scraper.py)      : per-player detail page *)
(*   - WhoScoredScraper  (who_scored_scraper.py)  : tabbed, counted pages  *)
(* The browser and the remote site are the environment: every answer of    *)
(* the page (content, extraction result, paging widget, exception) is a    *)
(* nondeterministic choice from a small set.                               *)
(***************************************************************************)
EXTENDS Integers, Sequences, FiniteSets, TLC

(***************************************************************************)
(* Bounds of the model (not program constants).                            *)
(***************************************************************************)
\* the remote listing offers a Next button on at most this many pages
MaxListPages == 2
\* a listing page yields at most this many player links
MaxPageUrls == 2
\* the per-page attempt history counter saturates here
TriesCap == 5
\* at most this many saves raise in one run of a SoFIFA scraper
MaxSaveFailures == 1
\* a WhoScored run collects at most this many rows
MaxRows == 3
\* at most this many advancement requests are made within one tab
MaxAdvances == 2
\* scrape_all_player_urls is called at most this many times on one object
MaxCalls == 2
\* a page snapshot is at most this many tokens long
MaxContentLen == 3

(***************************************************************************)
(* Program constants.                                                      *)
(***************************************************************************)
page_size_bug == 60 + 1
page_size == 60
url_max_retries_bug == 3 + 1
url_max_retries == 3
stats_max_retries_bug == 5 - 1
stats_max_retries == 5

\* the four fingerprints tested on the first snapshot
Markers == {"Checking your browser", "Just a moment",
            "cf-browser-verification", "challenge-platform"}
\* the two fingerprints tested again after the grace wait
RecheckMarkers == {"Checking your browser", "Just a moment"}

\* A snapshot is modelled by the set of fingerprints its content contains.
Contents == {{}, {"Just a moment"}, {"challenge-platform"}}

\* links a listing page can show
PlayerUrls == {"p1", "p2"}

VARIABLES
    \* ---- PlayerURLScraper ----
    l_pc,             \* "off" | "outer" | "inner" | "done"
    all_player_urls,  \* self.all_player_urls
    offset,           \* self.offset
    page_num,
    has_next,
    url_retries,      \* retries of scrape_all_player_urls
    url_success,      \* success of scrape_all_player_urls
    url_file,         \* rows of player_urls.csv, <<>> while the file does not exist
    l_tries,          \* history: attempts spent on the page at the current offset
    l_only_raised,    \* history: every attempt on that page raised in the fetch
    l_last,           \* history: outcome of the latest attempt
    l_save_failures,  \* history: number of failed saves (bounded)
    l_backoff,        \* history: jitter-free backoff slept before the latest attempt
    l_offsets,        \* history: offsets of the pages extracted and saved in this call
    l_failed,         \* history: some attempt of this call failed
    l_calls,          \* history: calls of scrape_all_player_urls so far
    \* ---- SoFIFAScraper ----
    d_pc,             \* "off" | "for" | "inner" | "done"
    player_urls,      \* self.player_urls
    max_players,      \* argument of scrape_player_stats, None or Some(n)
    idx,              \* enumerate(urls_to_scrape, 1)
    stats_retries,    \* retries of scrape_player_stats
    stats_success,    \* success of scrape_player_stats
    player_stats,     \* self.player_stats
    columns,          \* self.columns, None until fixed
    csv_initialized,  \* self.csv_initialized
    stats_isfile,     \* os.path.isfile(self.output_file)
    stats_file,       \* rows of player_stats.csv
    d_attempts,       \* history: fetches spent on each target
    d_outcome,        \* history: "pending" | "ok" | "failed" per target
    d_save_failures,  \* history: number of saves that raised (bounded)
    d_last,           \* history: outcome of the latest attempt
    d_first,          \* history: the first record written to the file, None before
    d_empties,        \* history: extractions without a name on the current target
    \* ---- WhoScoredScraper ----
    w_pc,             \* "off" | "run_for" | "scrape_url" | "tabs" | "open_tab" | "page"
                      \* | "click_next" | "done" | "crashed"
    max_pages,        \* self.max_pages, None or Some(n)
    tabs,             \* self.tabs (set of tab names)
    save_storage_state_path,  \* None or Some(path)
    _storage_saved,   \* self._storage_saved
    rows,             \* self.rows
    who_file,         \* rows of the output CSV, <<>> while it does not exist
    w_url,            \* position of run's for loop in self.urls
    w_tab,            \* position of _scrape_url's for loop in _selected_tabs()
    current_page,     \* current_page of _scrape_tab
    total_pages,      \* total_pages of _scrape_tab
    paging,           \* the paging widget of the open tab as the page shows it
    w_decision,       \* history: branch taken by the latest loop iteration
    w_nrows,          \* history: rows in table_data of the latest loop iteration
    w_has_next,       \* history: hasNext of page_info of the latest loop iteration
    w_rows_before,    \* history: len(self.rows) before the latest iteration
    w_advanced,       \* history: the latest step was a returned _click_next
    w_clicks,         \* history: advancement requests made at this position
    w_advances,       \* history: advancement requests made in this tab (bounded)
    w_pages,          \* history: pages extracted in this tab
    w_cause,          \* history: what ended the run early
    \* ---- _is_cloudflare_challenge ----
    c_content,        \* the content argument, a sequence of tokens
    c_verdict,        \* "off" | "pending" | "Challenge" | "Clear"
    \* a function applied to a drawn input
    x_fn,             \* "off" or the function's name
    x_in,             \* its argument(s)
    x_out             \* None until applied, then Some(result)

l_vars == <<l_pc, all_player_urls, offset, page_num, has_next, url_retries,
            url_success, url_file, l_tries, l_only_raised, l_last,
            l_save_failures, l_backoff, l_offsets, l_failed, l_calls>>

d_vars == <<d_pc, player_urls, max_players, idx, stats_retries, stats_success,
            player_stats, columns, csv_initialized, stats_isfile, stats_file,
            d_attempts, d_outcome, d_save_failures, d_last, d_first,
            d_empties>>

w_vars == <<w_pc, max_pages, tabs, save_storage_state_path, _storage_saved, rows,
            who_file, w_url, w_tab, current_page, total_pages, paging,
            w_decision, w_nrows, w_has_next, w_rows_before, w_advanced,
            w_clicks, w_advances, w_pages, w_cause>>

c_vars == <<c_content, c_verdict, x_fn, x_in, x_out>>

vars == <<l_vars, d_vars, w_vars, c_vars>>

(***************************************************************************)
(* Helpers                                                                 *)
(***************************************************************************)
Min(a, b) == IF a < b THEN a ELSE b

\* Python's None, and a value v, as values of one comparable kind
None == <<>>
Some(v) == <<v>>

Range(s) == {s[i] : i \in 1..Len(s)}

\* sequences over S of length at most n that hold no element twice
DistinctSeqs(S, n) ==
    {s \in UNION {[1..k -> S] : k \in 0..n} :
        \A i, j \in 1..Len(s) : i # j => s[i] # s[j]}

\* what one evaluation of the link query can return: the page's own
\* de-duplication (!urls.includes(href)) makes the list repetition-free
PageResults == DistinctSeqs(PlayerUrls, MaxPageUrls)

\* first snapshot test: any of the four fingerprints
ChallengeDetected(content) == content \cap Markers # {}
\* test after the grace wait: only two of the fingerprints
ChallengeStillPresent(content) == content \cap RecheckMarkers # {}

\* the content is read a second time only when the first test was positive
AfterGrace(before) == IF ChallengeDetected(before) THEN Contents ELSE {before}

\* the jitter-free part of the sleep before an attempt:
\* "if retries > 0: delay = (2 ** retries) + random.uniform(1, 5)"
Backoff(retries) == IF retries > 0 THEN 2 ^ retries ELSE 0

\* the attempt ends in "Cloudflare challenge still present"
ChallengeBlocks(before, after) ==
    ChallengeDetected(before) /\ ChallengeStillPresent(after)

(***************************************************************************)
(* PlayerURLScraper                                                        *)
(***************************************************************************)
\* save_urls_to_csv: order-preserving de-duplication ...
RECURSIVE UniqueUrls(_)
UniqueUrls(urls) ==
    IF urls = <<>> THEN <<>>
    ELSE LET front == UniqueUrls(SubSeq(urls, 1, Len(urls) - 1))
             last  == urls[Len(urls)]
         IN  IF last \in Range(front) THEN front ELSE Append(front, last)

UrlFileRows_newest_first(urls) ==
    LET unique == UniqueUrls(urls)
    IN  <<"player_url">> \o [i \in 1..Len(unique) |-> unique[Len(unique) + 1 - i]]
UrlFileRows_raw(urls) == <<"player_url">> \o urls
\* ... and the file rewritten as header row plus one row per unique URL
UrlFileRows(urls) == <<"player_url">> \o UniqueUrls(urls)

\* while has_next: ... retries = 0; success = False     /  browser.close()
L_OuterCheck ==
    /\ l_pc = "outer"
    /\ IF has_next
       THEN /\ l_pc' = "inner"
            /\ url_retries' = 0
            /\ url_success' = FALSE
       ELSE /\ l_pc' = "done"
            /\ UNCHANGED <<url_retries, url_success>>
    /\ UNCHANGED <<all_player_urls, offset, page_num, has_next, url_file,
                   l_tries, l_only_raised, l_last, l_save_failures, l_backoff>>
    /\ UNCHANGED <<l_offsets, l_failed, l_calls>>
    /\ UNCHANGED <<d_vars, w_vars, c_vars>>

\* while retries < max_retries and not success
InnerContinues == url_retries < url_max_retries /\ ~url_success

L_InnerExit ==
    /\ l_pc = "inner"
    /\ ~InnerContinues
    /\ l_pc' = "outer"
    /\ UNCHANGED <<all_player_urls, offset, page_num, has_next, url_retries,
                   url_success, url_file, l_tries, l_only_raised, l_last,
                   l_save_failures, l_backoff>>
    /\ UNCHANGED <<l_offsets, l_failed, l_calls>>
    /\ UNCHANGED <<d_vars, w_vars, c_vars>>

\* except Exception: retries += 1; at the ceiling has_next = False
ListingExcept ==
    /\ url_retries' = url_retries + 1
    /\ url_success' = url_success

StopsOnFailure(retriesAfter) == retriesAfter >= url_max_retries

\* goto / content / evaluate raises (timeout, navigation error)
L_FetchRaises ==
    /\ l_pc = "inner"
    /\ InnerContinues
    /\ ListingExcept
    /\ has_next' = IF StopsOnFailure(url_retries + 1) THEN FALSE ELSE has_next
    /\ l_tries' = Min(l_tries + 1, TriesCap)
    /\ l_last' = "raised"
    /\ l_backoff' = Backoff(url_retries)
    /\ UNCHANGED <<l_pc, all_player_urls, offset, page_num, url_file,
                   l_only_raised, l_save_failures>>
    /\ l_failed' = TRUE
    /\ UNCHANGED <<l_offsets, l_calls>>
    /\ UNCHANGED <<d_vars, w_vars, c_vars>>

\* challenge seen and still there after the 10 s wait: retries += 1; continue
L_ChallengePersists(before, after) ==
    /\ l_pc = "inner"
    /\ InnerContinues
    /\ ChallengeBlocks(before, after)
    /\ url_retries' = url_retries + 1
    /\ l_tries' = Min(l_tries + 1, TriesCap)
    /\ l_only_raised' = FALSE
    /\ l_last' = "challenge"
    /\ l_backoff' = Backoff(url_retries)
    /\ UNCHANGED <<l_pc, all_player_urls, offset, page_num, has_next,
                   url_success, url_file, l_save_failures>>
    /\ l_failed' = TRUE
    /\ UNCHANGED <<l_offsets, l_calls>>
    /\ UNCHANGED <<d_vars, w_vars, c_vars>>

\* the page is extracted, collected and saved; the cursor moves on hasNext
L_Extract(before, after, urls, hasNext) ==
    /\ l_pc = "inner"
    /\ InnerContinues
    /\ ~ChallengeBlocks(before, after)
    /\ hasNext => page_num < MaxListPages
    /\ has_next' = hasNext
    /\ all_player_urls' = all_player_urls \o urls
    /\ url_file' = UrlFileRows(all_player_urls \o urls)
    /\ url_success' = TRUE
    /\ IF hasNext
       THEN /\ offset' = offset + page_size
            /\ page_num' = page_num + 1
            /\ l_tries' = 0
            /\ l_only_raised' = TRUE
       ELSE /\ UNCHANGED <<offset, page_num>>
            /\ l_tries' = Min(l_tries + 1, TriesCap)
            /\ l_only_raised' = FALSE
    /\ l_last' = IF urls = <<>> THEN "empty" ELSE "extracted"
    /\ l_backoff' = Backoff(url_retries)
    /\ UNCHANGED <<l_pc, url_retries, l_save_failures>>
    /\ l_offsets' = Append(l_offsets, offset)
    /\ UNCHANGED <<l_failed, l_calls>>
    /\ UNCHANGED <<d_vars, w_vars, c_vars>>

\* the page is extracted and collected, but save_urls_to_csv raises on open
L_SaveRaises(before, after, urls, hasNext) ==
    /\ l_pc = "inner"
    /\ InnerContinues
    /\ ~ChallengeBlocks(before, after)
    /\ l_save_failures < MaxSaveFailures
    /\ hasNext => page_num < MaxListPages
    /\ all_player_urls' = all_player_urls \o urls
    /\ ListingExcept
    /\ has_next' = IF StopsOnFailure(url_retries + 1) THEN FALSE ELSE hasNext
    /\ l_tries' = Min(l_tries + 1, TriesCap)
    /\ l_only_raised' = FALSE
    /\ l_last' = "save_raised"
    /\ l_backoff' = Backoff(url_retries)
    /\ l_save_failures' = l_save_failures + 1
    /\ UNCHANGED <<l_pc, offset, page_num, url_file>>
    /\ l_failed' = TRUE
    /\ UNCHANGED <<l_offsets, l_calls>>
    /\ UNCHANGED <<d_vars, w_vars, c_vars>>

\* one pass through the body of the retry loop, i.e. one fetch of the page
L_Attempt ==
    \/ L_FetchRaises
    \/ \E before \in Contents : \E after \in AfterGrace(before) :
          \/ L_ChallengePersists(before, after)
          \/ \E urls \in PageResults, hasNext \in BOOLEAN :
                \/ L_Extract(before, after, urls, hasNext)
                \/ L_SaveRaises(before, after, urls, hasNext)

(***************************************************************************)
(* SoFIFAScraper                                                           *)
(***************************************************************************)
\* the leading part of priority_cols that the modelled records use
priority_cols == <<"player_id", "name", "url">>

\* every key a modelled record can carry, in lexicographic order (sorted())
LexOrder == <<"alpha", "name", "player_id", "url", "zeta">>

\* target lists load_player_urls can produce
TargetLists == {<<"u1">>, <<"u1", "u2">>, <<"u1", "u1">>, <<"not-a-url", "u1">>}

\* a row of the URL file that is no URL: page.goto raises on it every time
Malformed(target) == target = "not-a-url"

MaxPlayersChoices == {None, Some(0), Some(1)}

\* what player_stats.csv can hold when the run begins, if it exists: nothing,
\* or the header and a row of an earlier run
OldFiles == {<<>>, << <<"old_header">>, <<"old_row">> >>}

\* what PlayerScraper.scrape_player_data can return for a target
StatsResults(target) ==
    { [name |-> "", url |-> target],
      [name |-> "N", url |-> target],
      [name |-> "N", player_id |-> "7", url |-> target],
      [alpha |-> "a", name |-> "N", url |-> target, zeta |-> "z"] }

HasName_key(stats) == "name" \in DOMAIN stats
\* stats.get('name') is truthy
HasName(stats) == "name" \in DOMAIN stats /\ stats["name"] # ""

\* self.player_urls[:max_players] if max_players else self.player_urls
urls_to_scrape ==
    IF max_players = None \/ max_players = Some(0)
    THEN player_urls
    ELSE SubSeq(player_urls, 1, Min(max_players[1], Len(player_urls)))

total == Len(urls_to_scrape)

\* the loop variable url (unbound before the first iteration)
url == IF idx \in 1..total THEN urls_to_scrape[idx] ELSE "unbound"

InSeq(x, s) == \E i \in 1..Len(s) : s[i] = x

\* _get_column_order: priority columns present, then the other keys sorted
_get_column_order(stats_dict) ==
    LET all_keys == DOMAIN stats_dict
        other_cols == SelectSeq(LexOrder,
                         LAMBDA col : col \in all_keys /\ ~InSeq(col, priority_cols))
    IN  SelectSeq(priority_cols, LAMBDA col : col \in all_keys) \o other_cols

DictRow_compact(fieldnames, stats) ==
    LET present == SelectSeq(fieldnames, LAMBDA key : key \in DOMAIN stats)
    IN  [i \in 1..Len(present) |-> stats[present[i]]]
\* csv.DictWriter row: rowdict.get(key, '') for each field name
DictRow(fieldnames, stats) ==
    [i \in 1..Len(fieldnames) |->
        IF fieldnames[i] \in DOMAIN stats THEN stats[fieldnames[i]] ELSE ""]

\* DictWriter.writerow raises ValueError on keys that are not field names
RowAccepted(fieldnames, stats) == DOMAIN stats \subseteq Range(fieldnames)

\* self.columns after "if self.columns is None: ..."
ColumnsFor(stats) == IF columns = None THEN _get_column_order(stats) ELSE columns

\* file content after open(mode) [+ writeheader] [+ writerow]
\* openFails: open() raises and the file is left as it was
save_player_to_csv(stats, openFails) ==
    LET file_exists == stats_isfile /\ csv_initialized
        cols == ColumnsFor(stats)
        opened == IF csv_initialized THEN stats_file ELSE <<>>
        headed == IF file_exists THEN opened ELSE Append(opened, cols)
    IN  /\ columns' = cols
        /\ csv_initialized' = TRUE
        /\ IF openFails
           THEN UNCHANGED <<stats_isfile, stats_file>>
           ELSE /\ stats_isfile' = TRUE
                /\ stats_file' = IF RowAccepted(cols, stats)
                                 THEN Append(headed, DictRow(cols, stats))
                                 ELSE headed

\* the save returns normally
SaveSucceeds(stats, openFails) == ~openFails /\ RowAccepted(ColumnsFor(stats), stats)

\* for idx, url in enumerate(urls_to_scrape, 1): retries = 0; success = False
D_ForNext ==
    /\ d_pc = "for"
    /\ IF idx < total
       THEN /\ idx' = idx + 1
            /\ stats_retries' = 0
            /\ stats_success' = FALSE
            /\ d_pc' = "inner"
       ELSE /\ d_pc' = "done"
            /\ UNCHANGED <<idx, stats_retries, stats_success>>
    /\ UNCHANGED <<player_urls, max_players, player_stats, columns,
                   csv_initialized, stats_isfile, stats_file, d_attempts,
                   d_outcome, d_save_failures, d_last, d_first>>
    /\ d_empties' = 0
    /\ UNCHANGED <<l_vars, w_vars, c_vars>>

\* while retries < max_retries and not success
StatsContinues == stats_retries < stats_max_retries /\ ~stats_success

\* the retry loop ends; "if not success: Failed after ... skipping"
D_InnerExit ==
    /\ d_pc = "inner"
    /\ ~StatsContinues
    /\ d_pc' = "for"
    /\ d_outcome' = [d_outcome EXCEPT ![idx] = IF stats_success THEN "ok" ELSE "failed"]
    /\ UNCHANGED <<player_urls, max_players, idx, stats_retries, stats_success,
                   player_stats, columns, csv_initialized, stats_isfile,
                   stats_file, d_attempts, d_save_failures, d_last, d_first>>
    /\ UNCHANGED d_empties
    /\ UNCHANGED <<l_vars, w_vars, c_vars>>

Attempted == d_attempts' = [d_attempts EXCEPT ![idx] = @ + 1]

\* goto / content / scrape_player_data raises: except Exception: retries += 1
D_FetchRaises ==
    /\ d_pc = "inner"
    /\ StatsContinues
    /\ stats_retries' = stats_retries + 1
    /\ Attempted
    /\ d_last' = "raised"
    /\ UNCHANGED <<d_pc, player_urls, max_players, idx, stats_success,
                   player_stats, columns, csv_initialized, stats_isfile,
                   stats_file, d_outcome, d_save_failures, d_first>>
    /\ UNCHANGED d_empties
    /\ UNCHANGED <<l_vars, w_vars, c_vars>>

\* challenge seen and still there after the 10 s wait: retries += 1; continue
D_ChallengePersists(before, after) ==
    /\ d_pc = "inner"
    /\ StatsContinues
    /\ ~Malformed(url)
    /\ ChallengeBlocks(before, after)
    /\ stats_retries' = stats_retries + 1
    /\ Attempted
    /\ d_last' = "challenge"
    /\ UNCHANGED <<d_pc, player_urls, max_players, idx, stats_success,
                   player_stats, columns, csv_initialized, stats_isfile,
                   stats_file, d_outcome, d_save_failures, d_first>>
    /\ UNCHANGED d_empties
    /\ UNCHANGED <<l_vars, w_vars, c_vars>>

\* scrape_player_data returns; a record with a name is collected and saved
D_Extract(before, after, stats, openFails) ==
    /\ d_pc = "inner"
    /\ StatsContinues
    /\ ~Malformed(url)
    /\ ~ChallengeBlocks(before, after)
    /\ (HasName(stats) /\ ~SaveSucceeds(stats, openFails))
          => d_save_failures < MaxSaveFailures
    /\ Attempted
    /\ IF HasName(stats)
       THEN /\ player_stats' = Append(player_stats, stats)
            /\ save_player_to_csv(stats, openFails)
            /\ IF SaveSucceeds(stats, openFails)
               THEN /\ stats_success' = TRUE
                    /\ d_last' = "saved"
                    /\ d_first' = IF d_first = None THEN Some(stats) ELSE d_first
                    /\ UNCHANGED stats_retries
               ELSE /\ stats_retries' = stats_retries + 1
                    /\ d_last' = IF openFails THEN "open_raised" ELSE "row_rejected"
                    /\ UNCHANGED <<stats_success, d_first>>
            /\ d_save_failures' = IF SaveSucceeds(stats, openFails)
                                  THEN d_save_failures ELSE d_save_failures + 1
       ELSE /\ ~openFails
            /\ stats_retries' = stats_retries + 1
            /\ d_last' = "no_data"
            /\ UNCHANGED <<stats_success, player_stats, columns, csv_initialized,
                           stats_isfile, stats_file, d_save_failures, d_first>>
    /\ UNCHANGED <<d_pc, player_urls, max_players, idx, d_outcome>>
    /\ d_empties' = IF HasName(stats) THEN d_empties ELSE d_empties + 1
    /\ UNCHANGED <<l_vars, w_vars, c_vars>>

\* one pass through the body of the retry loop, i.e. one fetch of the target
D_Attempt ==
    \/ D_FetchRaises
    \/ \E before \in Contents : \E after \in AfterGrace(before) :
          \/ D_ChallengePersists(before, after)
          \/ \E stats \in StatsResults(url), openFails \in BOOLEAN :
                D_Extract(before, after, stats, openFails)

D_Next == D_ForNext \/ D_InnerExit \/ D_Attempt

L_Next == L_OuterCheck \/ L_InnerExit \/ L_Attempt

\* scrape_all_player_urls is called again on the same object: page_num = 1
\* and has_next = True are set anew, self.offset and self.all_player_urls
\* are left as the previous call left them
L_CallAgain ==
    /\ l_pc = "done"
    /\ l_calls < MaxCalls
    /\ l_calls' = l_calls + 1
    /\ l_pc' = "outer"
    /\ page_num' = 1
    /\ has_next' = TRUE
    /\ l_tries' = 0
    /\ l_only_raised' = TRUE
    /\ l_last' = "none"
    /\ l_backoff' = 0
    /\ l_offsets' = <<>>
    /\ l_failed' = FALSE
    /\ UNCHANGED <<all_player_urls, offset, url_retries, url_success, url_file,
                   l_save_failures>>
    /\ UNCHANGED <<d_vars, w_vars, c_vars>>

L_NextCalls == L_Next \/ L_CallAgain

(***************************************************************************)
(* WhoScoredScraper                                                        *)
(***************************************************************************)
\* page numbers the paging text can show
PageNumbers == {1, 2}

\* names of TABS, in list order
TABS == <<"summary", "defensive", "offensive", "passing", "xg", "detailed">>

\* self.urls
urls == <<"w1", "w2">>

TabChoices == {{"summary"}, {"xg", "summary"}}

MaxPagesChoices == {None, Some(2)}

\* _selected_tabs: the entries of TABS whose name was selected, in TABS order
_selected_tabs == SelectSeq(TABS, LAMBDA name : name \in tabs)

\* The paging widget: absent, or present with a text that matches
\* "Page X / Y" or not, and a next control that is absent, disabled or enabled
PagingStates ==
    {[present |-> FALSE, match |-> FALSE, current |-> 1, total |-> 1, next |-> "absent"]}
    \cup [present : {TRUE}, match : {FALSE}, current : {1}, total : {1},
          next : {"absent", "enabled"}]
    \cup [present : {TRUE}, match : {TRUE}, current : PageNumbers,
          total : PageNumbers, next : {"disabled", "enabled"}]

\* the page_info query of _scrape_tab
PageInfo(pg) ==
    IF ~pg.present
    THEN [current |-> 1, total |-> 1, hasNext |-> FALSE]
    ELSE [current |-> IF pg.match THEN pg.current ELSE 1,
          total   |-> IF pg.match THEN pg.total ELSE 1,
          hasNext |-> pg.next = "enabled"]

\* the predicate _click_next waits for
PageChanged(pg, current) ==
    IF ~pg.present THEN TRUE
    ELSE IF ~pg.match THEN TRUE
    ELSE pg.current # current

\* _normalize_header on the header texts the modelled tables use
_normalize_header(header) ==
    CASE header = "Player" -> "player"
      [] header = "Gls"    -> "gls"
      [] header = "Page"   -> "page"
      [] header = "Mins %" -> "mins"
      [] OTHER             -> header

\* f"{header}_{n}" on the normalized names
Suffixed(header, n) ==
    CASE header = "gls" /\ n = 2 -> "gls_2"
      [] header = "gls" /\ n = 3 -> "gls_3"
      [] header = "a" /\ n = 2   -> "a_2"
      [] header = "a" /\ n = 3   -> "a_3"
      [] header = "a" /\ n = 4   -> "a_4"
      [] header = "a" /\ n = 5   -> "a_5"
      [] header = "a_2" /\ n = 2 -> "a_2_2"
      [] header = "a_2" /\ n = 3 -> "a_2_3"
      [] header = "a_2" /\ n = 4 -> "a_2_4"
      [] header = "a_2" /\ n = 5 -> "a_2_5"
      [] header = "b" /\ n = 2   -> "b_2"
      [] header = "b" /\ n = 3   -> "b_3"
      [] header = "b" /\ n = 4   -> "b_4"
      [] header = "b" /\ n = 5   -> "b_5"
      [] OTHER                   -> header

Count(x, s) == Cardinality({i \in 1..Len(s) : s[i] = x})

_dedupe_headers_total(headers) ==
    [i \in 1..Len(headers) |->
        LET seen == Count(headers[i], headers)
        IN  IF seen = 1 THEN headers[i] ELSE Suffixed(headers[i], seen)]
\* _dedupe_headers: a repeated name gets its running count as suffix
_dedupe_headers(headers) ==
    [i \in 1..Len(headers) |->
        LET seen == Count(headers[i], SubSeq(headers, 1, i))
        IN  IF seen = 1 THEN headers[i] ELSE Suffixed(headers[i], seen)]

\* table_data values the page can return
TableChoices ==
    { [headers |-> <<>>, rows |-> <<>>],
      [headers |-> <<"Player", "Gls">>,
       rows |-> << [values |-> <<"A", "1">>, playerName |-> "A"] >>],
      [headers |-> <<"Player", "Gls", "Gls">>,
       rows |-> << [values |-> <<"B", "2", "3">>, playerName |-> "B"] >>] }

base_columns == <<"source_url", "tab", "page", "player_name", "player_url",
                  "team_name", "team_url", "player_age", "player_positions">>

\* the keys a modelled row can carry besides base_columns, sorted
ExtraLexOrder == <<"gls", "gls_2", "gls_3", "mins">>

PageText(n) == CASE n = 1 -> "1" [] n = 2 -> "2" [] n = 3 -> "3" [] OTHER -> "n"

\* the loop body "for idx, header in enumerate(headers)" from position i on
RECURSIVE FillRow(_, _, _, _)
FillRow(row_data, headers, values, i) ==
    IF i > Len(headers) THEN row_data
    ELSE IF headers[i] = "player" \/ i > Len(values)
         THEN FillRow(row_data, headers, values, i + 1)
         ELSE FillRow([k \in DOMAIN row_data \cup {headers[i]} |->
                         IF k = headers[i] THEN values[i] ELSE row_data[k]],
                      headers, values, i + 1)

\* row_data built for one table row
RowData(source, tab, page, headers, row) ==
    FillRow([source_url |-> source, tab |-> tab, page |-> PageText(page),
             player_name |-> row.playerName, player_url |-> "",
             team_name |-> "", team_url |-> "", player_age |-> "",
             player_positions |-> ""],
            headers, row.values, 1)

\* the rows one table adds to self.rows
TableRows(source, tab, page, table) ==
    LET headers == _dedupe_headers([i \in 1..Len(table.headers) |->
                                       _normalize_header(table.headers[i])])
    IN  [i \in 1..Len(table.rows) |-> RowData(source, tab, page, headers, table.rows[i])]

\* _write_csv: base columns, then every other key sorted; header, then rows
CsvColumns(rs) ==
    LET all_keys == Range(base_columns) \cup UNION {DOMAIN rs[i] : i \in 1..Len(rs)}
    IN  base_columns \o SelectSeq(ExtraLexOrder,
                           LAMBDA key : key \in all_keys /\ ~InSeq(key, base_columns))

CsvRows(rs) ==
    LET cols == CsvColumns(rs)
    IN  <<cols>> \o [i \in 1..Len(rs) |-> DictRow(cols, rs[i])]

_write_csv == who_file' = IF rows = <<>> THEN who_file ELSE CsvRows(rows)

\* "if self.max_pages and current_page >= self.max_pages"
MaxPagesReached(current) ==
    max_pages # None /\ max_pages[1] # 0 /\ current >= max_pages[1]

HasContinuation_counted(page_info) == page_info.current < page_info.total
\* the continuation test of the loop: "if not page_info.get('hasNext')"
HasContinuation(page_info) == page_info.hasNext

TabDecision_reordered(table, page_info) ==
    IF ~HasContinuation(page_info) THEN "no_next"
    ELSE IF table.rows = <<>> THEN "zero_rows"
    ELSE IF MaxPagesReached(page_info.current) THEN "max_pages"
    ELSE "advance"
\* the branch one iteration of the while loop of _scrape_tab takes
TabDecision(table, page_info) ==
    IF table.rows = <<>> THEN "zero_rows"
    ELSE IF MaxPagesReached(page_info.current) THEN "max_pages"
    ELSE IF ~HasContinuation(page_info) THEN "no_next"
    ELSE "advance"

\* Page content is a sequence of tokens.  "Just a moment" is three tokens,
\* so that containment has to find them side by side and in this case.
Tokens == {"Checking your browser", "cf-browser-verification",
           "challenge-platform", "Just", "a", "moment", "just"}

\* the contents _is_cloudflare_challenge is applied to
Snapshots == UNION {[1..n -> Tokens] : n \in 0..MaxContentLen}

\* the list markers of _is_cloudflare_challenge
markers == << <<"Checking your browser">>, <<"Just", "a", "moment">>,
              <<"cf-browser-verification">>, <<"challenge-platform">> >>

\* Python's "marker in content" on strings
Contains(content, marker) ==
    \E i \in 1..(Len(content) - Len(marker) + 1) :
        SubSeq(content, i, i + Len(marker) - 1) = marker

_is_cloudflare_challenge_two(content) ==
    \E k \in 1..2 : Contains(content, markers[k])
\* any(marker in content for marker in markers)
_is_cloudflare_challenge(content) ==
    \E k \in 1..Len(markers) : Contains(content, markers[k])

\* one call of _is_cloudflare_challenge(c_content)
C_Classify ==
    /\ c_verdict = "pending"
    /\ x_fn = "off"
    /\ x_in = <<>>
    /\ x_out = None
    /\ c_verdict' = IF _is_cloudflare_challenge(c_content) THEN "Challenge" ELSE "Clear"
    /\ UNCHANGED <<c_content, x_fn, x_in, x_out>>
    /\ UNCHANGED <<l_vars, d_vars, w_vars>>

C_Next == C_Classify

\* contents the WhoScored page shows in _scrape_url
PageContents == {<<>>, <<"Just", "a", "moment">>, <<"challenge-platform">>}

\* an exception leaves _scrape_url and run: nothing catches it
Propagates(cause) ==
    /\ w_pc' = "crashed"
    /\ w_cause' = cause

\* run: "for url in self.urls" takes the next URL, or the loop is over:
\* browser.close() and self._write_csv()
W_RunNext ==
    /\ w_pc = "run_for"
    /\ IF w_url < Len(urls)
       THEN /\ w_url' = w_url + 1
            /\ w_pc' = "scrape_url"
            /\ UNCHANGED who_file
       ELSE /\ w_pc' = "done"
            /\ _write_csv
            /\ UNCHANGED w_url
    /\ UNCHANGED <<max_pages, tabs, save_storage_state_path, _storage_saved, rows,
                   w_tab, current_page, total_pages, paging, w_decision, w_nrows,
                   w_has_next, w_rows_before, w_advanced, w_clicks, w_advances,
                   w_pages, w_cause>>
    /\ UNCHANGED <<l_vars, d_vars, c_vars>>

\* _scrape_url up to its tab loop.  content: page.content() after goto;
\* after: what the page shows once the 3 s wait that follows a detected
\* challenge is over (the code does not read it when no storage-state path is
\* set); panel: which wait_for_selector finds "#stage-top-player-stats":
\* "first", "fallback" or "never"
W_ScrapeUrl(gotoOk, content, after, panel) ==
    /\ w_pc = "scrape_url"
    /\ ~_is_cloudflare_challenge(content) => after = content
    /\ IF ~gotoOk
       THEN /\ Propagates("timeout")
            /\ UNCHANGED <<_storage_saved, w_tab>>
       ELSE IF panel = "never"
       THEN /\ Propagates("panel_not_found")
            /\ UNCHANGED <<_storage_saved, w_tab>>
       ELSE /\ _storage_saved' = IF panel = "fallback" /\ save_storage_state_path # None
                                 THEN TRUE ELSE _storage_saved
            /\ w_tab' = 0
            /\ w_pc' = "tabs"
            /\ UNCHANGED w_cause
    /\ UNCHANGED <<max_pages, tabs, save_storage_state_path, rows, who_file, w_url,
                   current_page, total_pages, paging, w_decision, w_nrows,
                   w_has_next, w_rows_before, w_advanced, w_clicks, w_advances,
                   w_pages>>
    /\ UNCHANGED <<l_vars, d_vars, c_vars>>

\* _scrape_url: "for tab in self._selected_tabs()"
W_TabNext ==
    /\ w_pc = "tabs"
    /\ IF w_tab < Len(_selected_tabs)
       THEN /\ w_tab' = w_tab + 1
            /\ w_pc' = "open_tab"
       ELSE /\ w_pc' = "run_for"
            /\ UNCHANGED w_tab
    /\ UNCHANGED <<max_pages, tabs, save_storage_state_path, _storage_saved, rows,
                   who_file, w_url, current_page, total_pages, paging, w_decision,
                   w_nrows, w_has_next, w_rows_before, w_advanced, w_clicks, w_advances,
                   w_pages, w_cause>>
    /\ UNCHANGED <<l_vars, d_vars, c_vars>>

\* _scrape_tab up to its while loop: the tab link is looked up and clicked,
\* the table is waited for
W_OpenTab(linkFound, tableAppears, shown) ==
    /\ w_pc = "open_tab"
    /\ IF ~linkFound
       THEN /\ w_pc' = "tabs"
            /\ UNCHANGED <<current_page, total_pages, paging, w_cause, w_advances,
                           w_pages, w_decision>>
       ELSE IF ~tableAppears
       THEN /\ Propagates("timeout")
            /\ UNCHANGED <<current_page, total_pages, paging, w_advances,
                           w_pages, w_decision>>
       ELSE /\ current_page' = 1
            /\ total_pages' = None
            /\ paging' = shown
            /\ w_pc' = "page"
            /\ w_advances' = 0
            /\ w_pages' = 0
            /\ w_decision' = "none"
            /\ UNCHANGED w_cause
    /\ w_advanced' = FALSE
    /\ w_clicks' = 0
    /\ UNCHANGED <<max_pages, tabs, save_storage_state_path, _storage_saved, rows,
                   who_file, w_url, w_tab, w_nrows, w_has_next, w_rows_before>>
    /\ UNCHANGED <<l_vars, d_vars, c_vars>>

\* one iteration of the while loop of _scrape_tab up to _click_next:
\* paging and table are read, the stop conditions are applied in order
W_Page(table) ==
    /\ w_pc = "page"
    /\ Len(rows) + Len(table.rows) <= MaxRows
    /\ LET page_info == PageInfo(paging)
           decision == TabDecision(table, page_info)
       IN  /\ current_page' = page_info.current
           /\ total_pages' = Some(page_info.total)
           /\ rows' = IF decision = "zero_rows" THEN rows
                      ELSE rows \o TableRows(urls[w_url], _selected_tabs[w_tab],
                                             page_info.current, table)
           /\ w_pages' = IF decision = "zero_rows" THEN w_pages ELSE w_pages + 1
           /\ w_decision' = decision
           /\ w_pc' = IF decision = "advance" THEN "click_next" ELSE "tabs"
    /\ w_nrows' = Len(table.rows)
    /\ w_has_next' = PageInfo(paging).hasNext
    /\ w_rows_before' = Len(rows)
    /\ w_advanced' = FALSE
    /\ w_clicks' = 0
    /\ UNCHANGED <<max_pages, tabs, save_storage_state_path, _storage_saved,
                   who_file, w_url, w_tab, paging, w_advances, w_cause>>
    /\ UNCHANGED <<l_vars, d_vars, c_vars>>

\* _click_next: the next control is clicked, the page then shows `shown`
\* until wait_for_function returns or times out
W_ClickNext(shown) ==
    /\ w_pc = "click_next"
    /\ w_advances < MaxAdvances
    /\ w_advances' = w_advances + 1
    /\ w_clicks' = w_clicks + 1
    /\ paging' = shown
    /\ IF PageChanged(shown, current_page)
       THEN /\ w_pc' = "page"
            /\ w_advanced' = TRUE
            /\ UNCHANGED w_cause
       ELSE /\ Propagates("stall")
            /\ w_advanced' = FALSE
    /\ UNCHANGED <<max_pages, tabs, save_storage_state_path, _storage_saved, rows,
                   who_file, w_url, w_tab, current_page, total_pages, w_decision,
                   w_nrows, w_has_next, w_rows_before, w_pages>>
    /\ UNCHANGED <<l_vars, d_vars, c_vars>>

W_Next ==
    \/ W_RunNext
    \/ \E gotoOk \in BOOLEAN, content \in PageContents, after \in PageContents,
          panel \in {"first", "fallback", "never"} :
            W_ScrapeUrl(gotoOk, content, after, panel)
    \/ W_TabNext
    \/ \E linkFound \in BOOLEAN, tableAppears \in BOOLEAN, shown \in PagingStates :
            W_OpenTab(linkFound, tableAppears, shown)
    \/ \E table \in TableChoices : W_Page(table)
    \/ \E shown \in PagingStates : W_ClickNext(shown)

(***************************************************************************)
(* Functions of the scrapers applied to drawn inputs: the header helpers   *)
(* of both table scrapers, the row builder, and fbref_scraper.py.          *)
(* Texts whose characters matter are sequences of one-character strings.   *)
(***************************************************************************)
MaxLevels == 2
MaxHeaders == 4

\* level and header texts: "", " ", "S", "G", " G"
LevelTexts == {<<>>, <<" ">>, <<"S">>, <<"G">>, <<" ", "G">>}

\* str.strip(): whitespace is removed from both ends
RECURSIVE lstrip(_)
lstrip(s) == IF s # <<>> /\ Head(s) = " " THEN lstrip(Tail(s)) ELSE s

RECURSIVE rstrip(_)
rstrip(s) ==
    IF s # <<>> /\ s[Len(s)] = " " THEN rstrip(SubSeq(s, 1, Len(s) - 1)) ELSE s

strip(s) == rstrip(lstrip(s))

\* sep.join(parts)
RECURSIVE join(_, _)
join(sep, parts) ==
    IF parts = <<>> THEN <<>>
    ELSE IF Len(parts) = 1 THEN parts[1]
    ELSE parts[1] \o sep \o join(sep, Tail(parts))

\* sequences over S of length lo..hi
SeqsOf(S, lo, hi) == UNION {[1..n -> S] : n \in lo..hi}

\* a column label: a tuple of levels (MultiIndex) or one text
ColumnChoices ==
    {[text |-> t] : t \in LevelTexts}
        \cup {[levels |-> ls] : ls \in SeqsOf(LevelTexts, 1, MaxLevels)}

\* one loop round of _flatten_headers: "if c" drops the falsy levels, then
\* every level that is left is stripped and the results are joined
FlattenColumn(col) ==
    IF "levels" \in DOMAIN col
    THEN LET kept == SelectSeq(col.levels, LAMBDA c : c # <<>>)
         IN  join(<<" ">>, [i \in 1..Len(kept) |-> strip(kept[i])])
    ELSE strip(col.text)

_flatten_headers(df) == [i \in 1..Len(df) |-> FlattenColumn(df[i])]

\* header names given to _dedupe_headers
HeaderNames == {"a", "a_2", "b"}

\* rows of a stats table whose headers may be named like provenance keys
RowTables ==
    {[headers |-> hs, rows |-> << [values |-> SubSeq(<<"A", "7", "9">>, 1, Len(hs)),
                                   playerName |-> "A"] >>] :
        hs \in {<<"Player", "Gls">>, <<"Player", "Page">>, <<"Player", "Gls", "Page">>}}

\* ---- fbref_scraper.py ----
\* ids found in the page: "t1", "t2"
T1 == <<"t", "1">>
T2 == <<"t", "2">>
all_ == <<"a", "l", "l", "_">>

\* the columns pandas reads from a table that parses
ParsedColumns == << [levels |-> <<<<"S">>, <<"G">>>>], [text |-> <<"G">>] >>

\* a <table> tag: its id, and the frame read_html makes of it (None when
\* read_html raises ValueError)
TableTag(id, parses) == [id |-> id, frame |-> IF parses THEN Some(ParsedColumns) ELSE None]

\* an HTML comment: the tables it contains, in document order
CommentChoices ==
    { <<>>, <<TableTag(T1, TRUE)>>, <<TableTag(T1, FALSE)>>, <<TableTag(T2, TRUE)>> }

DivIds == {all_ \o T1, all_ \o T2, all_, T1}

\* a div: its id and the comments inside it, in document order
DivChoices ==
    {[id |-> i, comments |-> cs] :
        i \in DivIds,
        cs \in {<<>>} \cup {<<c>> : c \in CommentChoices}
                 \cup {<<c, e>> : c \in CommentChoices, e \in CommentChoices}}

\* the divs fetch_fbref_tables is tried on: at most one comment each
PageDivs == {d \in DivChoices : Len(d.comments) <= 1}

Pages == {<<>>} \cup {<<d>> : d \in PageDivs} \cup {<<d, e>> : d \in PageDivs, e \in PageDivs}

\* the truth value of an Optional[str]
Truthy(table_id) == table_id # None /\ table_id[1] # <<>>

\* soup.find("table", id=table_id): the first table with that id
FindTable(comment, table_id) ==
    LET hits == SelectSeq(comment, LAMBDA t : ~Truthy(table_id) \/ t.id = table_id[1])
    IN  IF hits = <<>> THEN None ELSE Some(hits[1])

_extract_table_from_div_first(div, table_id) ==
    IF div.comments = <<>> THEN None
    ELSE LET table_tag == FindTable(div.comments[1], None)
         IN  IF table_tag = None THEN None
             ELSE IF table_tag[1].frame = None THEN None
             ELSE Some(_flatten_headers(table_tag[1].frame[1]))
\* _extract_table_from_div(div, table_id): None, or Some(frame)
_extract_table_from_div(div, table_id) ==
    IF div.comments = <<>> THEN None
    ELSE LET comment   == div.comments[1]
             table_tag == FindTable(comment, table_id)
         IN  IF table_tag = None THEN None
             ELSE IF table_tag[1].frame = None THEN None
             ELSE Some(_flatten_headers(table_tag[1].frame[1]))

\* "^all_" matches the div's id; key = div_id[4:]
MatchesPattern(div) == Len(div.id) >= 4 /\ SubSeq(div.id, 1, 4) = all_

Key_full(div) == div.id
Key(div) == SubSeq(div.id, 5, Len(div.id))

\* the loop of fetch_fbref_tables over the first n matching divs
RECURSIVE CollectTables(_, _, _)
CollectTables(divs, table_id, n) ==
    IF n = 0 THEN << >>
    ELSE LET tables == CollectTables(divs, table_id, n - 1)
             div    == divs[n]
             key    == Key(div)
             df     == _extract_table_from_div(div, Some(key))
         IN  IF (table_id # None /\ key # table_id[1]) \/ df = None
             THEN tables
             ELSE [k \in DOMAIN tables \cup {key} |->
                      IF k = key THEN df[1] ELSE tables[k]]

\* fetch_fbref_tables(url, table_id): response is None when _fetch_page
\* raises, else Some(the divs of the page in document order)
fetch_fbref_tables(response, table_id) ==
    IF response = None THEN [kind |-> "raised", tables |-> << >>]
    ELSE LET divs == SelectSeq(response[1], MatchesPattern)
         IN  [kind |-> "returned", tables |-> CollectTables(divs, table_id, Len(divs))]

\* main(): args.table and args.output are None or Some(text); writeFails says
\* whether os.makedirs or to_csv raises
main(response, table, output, writeFails) ==
    LET fetched == fetch_fbref_tables(response, table)
        failed  == [kind |-> "returned", code |-> 1, saved |-> {}, printed |-> {}]
    IN  IF fetched.kind = "raised" THEN failed
        ELSE IF DOMAIN fetched.tables = {} THEN failed
        ELSE IF output # None
             THEN IF writeFails
                  THEN [kind |-> "raised"]
                  ELSE [kind |-> "returned", code |-> 0,
                        saved |-> DOMAIN fetched.tables, printed |-> {}]
             ELSE [kind |-> "returned", code |-> 0, saved |-> {},
                   printed |-> DOMAIN fetched.tables]

\* ---- the functions are applied once to an input drawn at the start ----
Functions == {"flatten", "dedupe", "rows", "extract", "fetch", "main"}

TableIdChoices == {None, Some(<<>>), Some(T1), Some(T2)}

Inputs(fn) ==
    CASE fn = "flatten" -> SeqsOf(ColumnChoices, 0, 1)
      [] fn = "dedupe"  -> SeqsOf(HeaderNames, 0, MaxHeaders)
      [] fn = "rows"    -> {[source |-> u, tab |-> t, page |-> p, table |-> tb] :
                               u \in Range(urls), t \in Range(TABS), p \in PageNumbers,
                               tb \in RowTables}
      [] fn = "extract" -> {[div |-> d, table_id |-> t] :
                               d \in DivChoices, t \in TableIdChoices}
      [] fn = "fetch"   -> {[response |-> r, table_id |-> t] :
                               r \in {None} \cup {Some(p) : p \in Pages},
                               t \in {None, Some(T1)}}
      [] fn = "main"    -> {[response |-> r, table |-> t, output |-> o, writeFails |-> w] :
                               r \in {None} \cup {Some(p) : p \in {q \in Pages : Len(q) <= 1}},
                               t \in {None, Some(T1)},
                               o \in {None, Some("out")}, w \in BOOLEAN}

\* _flatten_headers(df) on the drawn columns
X_Flatten ==
    /\ x_fn = "flatten"
    /\ x_out = None
    /\ x_out' = Some(_flatten_headers(x_in))
    /\ UNCHANGED <<x_fn, x_in, c_content, c_verdict, l_vars, d_vars, w_vars>>

\* _dedupe_headers(headers) on the drawn header list
X_Dedupe ==
    /\ x_fn = "dedupe"
    /\ x_out = None
    /\ x_out' = Some(_dedupe_headers(x_in))
    /\ UNCHANGED <<x_fn, x_in, c_content, c_verdict, l_vars, d_vars, w_vars>>

\* the rows _scrape_tab builds from one drawn table
X_Rows ==
    /\ x_fn = "rows"
    /\ x_out = None
    /\ x_out' = Some(TableRows(x_in.source, x_in.tab, x_in.page, x_in.table))
    /\ UNCHANGED <<x_fn, x_in, c_content, c_verdict, l_vars, d_vars, w_vars>>

\* _extract_table_from_div(div, table_id) on a drawn div
X_Extract ==
    /\ x_fn = "extract"
    /\ x_out = None
    /\ x_out' = Some(_extract_table_from_div(x_in.div, x_in.table_id))
    /\ UNCHANGED <<x_fn, x_in, c_content, c_verdict, l_vars, d_vars, w_vars>>

\* fetch_fbref_tables(url, table_id) on a drawn response
X_Fetch ==
    /\ x_fn = "fetch"
    /\ x_out = None
    /\ x_out' = Some(fetch_fbref_tables(x_in.response, x_in.table_id))
    /\ UNCHANGED <<x_fn, x_in, c_content, c_verdict, l_vars, d_vars, w_vars>>

\* main() on a drawn response and command line
X_Main ==
    /\ x_fn = "main"
    /\ x_out = None
    /\ x_out' = Some(main(x_in.response, x_in.table, x_in.output, x_in.writeFails))
    /\ UNCHANGED <<x_fn, x_in, c_content, c_verdict, l_vars, d_vars, w_vars>>

X_Next == X_Flatten \/ X_Dedupe \/ X_Rows \/ X_Extract \/ X_Fetch \/ X_Main

(***************************************************************************)
(* Specifications: one program runs, the others are not started ("off").   *)
(***************************************************************************)
\* PlayerURLScraper() runs; the other programs are not started
L_Init ==
    /\ l_pc = "outer"
    /\ all_player_urls = <<>>
    /\ offset = 0
    /\ page_num = 1
    /\ has_next = TRUE
    /\ url_retries = 0
    /\ url_success = FALSE
    /\ url_file = <<>>
    /\ l_tries = 0
    /\ l_only_raised = TRUE
    /\ l_last = "none"
    /\ l_save_failures = 0
    /\ l_backoff = 0
    /\ l_offsets = <<>>
    /\ l_failed = FALSE
    /\ l_calls = 1
    /\ d_pc = "off"
    /\ player_urls = <<"u1">>
    /\ max_players = None
    /\ idx = 0
    /\ stats_retries = 0
    /\ stats_success = FALSE
    /\ player_stats = <<>>
    /\ columns = None
    /\ csv_initialized = FALSE
    /\ stats_isfile = FALSE
    /\ stats_file = IF stats_isfile THEN << <<"old_header">>, <<"old_row">> >> ELSE <<>>
    /\ d_attempts = [i \in 1..Len(player_urls) |-> 0]
    /\ d_outcome = [i \in 1..Len(player_urls) |-> "pending"]
    /\ d_save_failures = 0
    /\ d_last = "none"
    /\ d_first = None
    /\ d_empties = 0
    /\ w_pc = "off"
    /\ max_pages = None
    /\ tabs = {"summary"}
    /\ save_storage_state_path = None
    /\ _storage_saved = FALSE
    /\ rows = <<>>
    /\ who_file = <<>>
    /\ w_url = 0
    /\ w_tab = 0
    /\ current_page = 1
    /\ total_pages = None
    /\ paging \in {pg \in PagingStates : ~pg.present}
    /\ w_decision = "none"
    /\ w_nrows = 0
    /\ w_has_next = FALSE
    /\ w_rows_before = 0
    /\ w_advanced = FALSE
    /\ w_clicks = 0
    /\ w_advances = 0
    /\ w_pages = 0
    /\ w_cause = "none"
    /\ c_content = <<>>
    /\ c_verdict = "off"
    /\ x_fn = "off"
    /\ x_in = <<>>
    /\ x_out = None

SpecL == L_Init /\ [][L_Next]_vars

\* the event loop runs the coroutine whenever it can continue
FairSpecL == SpecL /\ WF_vars(L_Next)

\* the same PlayerURLScraper object is used for several calls
SpecLCalls == L_Init /\ [][L_NextCalls]_vars

\* SoFIFAScraper() after load_player_urls runs; the other programs are not started
D_Init ==
    /\ l_pc = "off"
    /\ all_player_urls = <<>>
    /\ offset = 0
    /\ page_num = 1
    /\ has_next = TRUE
    /\ url_retries = 0
    /\ url_success = FALSE
    /\ url_file = <<>>
    /\ l_tries = 0
    /\ l_only_raised = TRUE
    /\ l_last = "none"
    /\ l_save_failures = 0
    /\ l_backoff = 0
    /\ l_offsets = <<>>
    /\ l_failed = FALSE
    /\ l_calls = 1
    /\ d_pc = "for"
    /\ player_urls \in TargetLists
    /\ max_players \in MaxPlayersChoices
    /\ idx = 0
    /\ stats_retries = 0
    /\ stats_success = FALSE
    /\ player_stats = <<>>
    /\ columns = None
    /\ csv_initialized = FALSE
    /\ stats_isfile \in BOOLEAN
    /\ stats_file \in IF stats_isfile THEN OldFiles ELSE {<<>>}
    /\ d_attempts = [i \in 1..Len(player_urls) |-> 0]
    /\ d_outcome = [i \in 1..Len(player_urls) |-> "pending"]
    /\ d_save_failures = 0
    /\ d_last = "none"
    /\ d_first = None
    /\ d_empties = 0
    /\ w_pc = "off"
    /\ max_pages = None
    /\ tabs = {"summary"}
    /\ save_storage_state_path = None
    /\ _storage_saved = FALSE
    /\ rows = <<>>
    /\ who_file = <<>>
    /\ w_url = 0
    /\ w_tab = 0
    /\ current_page = 1
    /\ total_pages = None
    /\ paging \in {pg \in PagingStates : ~pg.present}
    /\ w_decision = "none"
    /\ w_nrows = 0
    /\ w_has_next = FALSE
    /\ w_rows_before = 0
    /\ w_advanced = FALSE
    /\ w_clicks = 0
    /\ w_advances = 0
    /\ w_pages = 0
    /\ w_cause = "none"
    /\ c_content = <<>>
    /\ c_verdict = "off"
    /\ x_fn = "off"
    /\ x_in = <<>>
    /\ x_out = None

SpecD == D_Init /\ [][D_Next]_vars

FairSpecD == SpecD /\ WF_vars(D_Next)

\* WhoScoredScraper(...) runs; the other programs are not started
W_Init ==
    /\ l_pc = "off"
    /\ all_player_urls = <<>>
    /\ offset = 0
    /\ page_num = 1
    /\ has_next = TRUE
    /\ url_retries = 0
    /\ url_success = FALSE
    /\ url_file = <<>>
    /\ l_tries = 0
    /\ l_only_raised = TRUE
    /\ l_last = "none"
    /\ l_save_failures = 0
    /\ l_backoff = 0
    /\ l_offsets = <<>>
    /\ l_failed = FALSE
    /\ l_calls = 1
    /\ d_pc = "off"
    /\ player_urls = <<"u1">>
    /\ max_players = None
    /\ idx = 0
    /\ stats_retries = 0
    /\ stats_success = FALSE
    /\ player_stats = <<>>
    /\ columns = None
    /\ csv_initialized = FALSE
    /\ stats_isfile = FALSE
    /\ stats_file = IF stats_isfile THEN << <<"old_header">>, <<"old_row">> >> ELSE <<>>
    /\ d_attempts = [i \in 1..Len(player_urls) |-> 0]
    /\ d_outcome = [i \in 1..Len(player_urls) |-> "pending"]
    /\ d_save_failures = 0
    /\ d_last = "none"
    /\ d_first = None
    /\ d_empties = 0
    /\ w_pc = "run_for"
    /\ max_pages \in MaxPagesChoices
    /\ tabs \in TabChoices
    /\ save_storage_state_path = None
    /\ _storage_saved = FALSE
    /\ rows = <<>>
    /\ who_file = <<>>
    /\ w_url = 0
    /\ w_tab = 0
    /\ current_page = 1
    /\ total_pages = None
    /\ paging \in {pg \in PagingStates : ~pg.present}
    /\ w_decision = "none"
    /\ w_nrows = 0
    /\ w_has_next = FALSE
    /\ w_rows_before = 0
    /\ w_advanced = FALSE
    /\ w_clicks = 0
    /\ w_advances = 0
    /\ w_pages = 0
    /\ w_cause = "none"
    /\ c_content = <<>>
    /\ c_verdict = "off"
    /\ x_fn = "off"
    /\ x_in = <<>>
    /\ x_out = None

SpecW == W_Init /\ [][W_Next]_vars

\* _is_cloudflare_challenge is called once on a content drawn from Snapshots
C_Init ==
    /\ l_pc = "off"
    /\ all_player_urls = <<>>
    /\ offset = 0
    /\ page_num = 1
    /\ has_next = TRUE
    /\ url_retries = 0
    /\ url_success = FALSE
    /\ url_file = <<>>
    /\ l_tries = 0
    /\ l_only_raised = TRUE
    /\ l_last = "none"
    /\ l_save_failures = 0
    /\ l_backoff = 0
    /\ l_offsets = <<>>
    /\ l_failed = FALSE
    /\ l_calls = 1
    /\ d_pc = "off"
    /\ player_urls = <<"u1">>
    /\ max_players = None
    /\ idx = 0
    /\ stats_retries = 0
    /\ stats_success = FALSE
    /\ player_stats = <<>>
    /\ columns = None
    /\ csv_initialized = FALSE
    /\ stats_isfile = FALSE
    /\ stats_file = IF stats_isfile THEN << <<"old_header">>, <<"old_row">> >> ELSE <<>>
    /\ d_attempts = [i \in 1..Len(player_urls) |-> 0]
    /\ d_outcome = [i \in 1..Len(player_urls) |-> "pending"]
    /\ d_save_failures = 0
    /\ d_last = "none"
    /\ d_first = None
    /\ d_empties = 0
    /\ w_pc = "off"
    /\ max_pages = None
    /\ tabs = {"summary"}
    /\ save_storage_state_path = None
    /\ _storage_saved = FALSE
    /\ rows = <<>>
    /\ who_file = <<>>
    /\ w_url = 0
    /\ w_tab = 0
    /\ current_page = 1
    /\ total_pages = None
    /\ paging \in {pg \in PagingStates : ~pg.present}
    /\ w_decision = "none"
    /\ w_nrows = 0
    /\ w_has_next = FALSE
    /\ w_rows_before = 0
    /\ w_advanced = FALSE
    /\ w_clicks = 0
    /\ w_advances = 0
    /\ w_pages = 0
    /\ w_cause = "none"
    /\ c_content \in Snapshots
    /\ c_verdict = "pending"
    /\ x_fn = "off"
    /\ x_in = <<>>
    /\ x_out = None

SpecC == C_Init /\ [][C_Next]_vars

\* one of the functions is applied once to an input drawn from Inputs
X_Init ==
    /\ l_pc = "off"
    /\ all_player_urls = <<>>
    /\ offset = 0
    /\ page_num = 1
    /\ has_next = TRUE
    /\ url_retries = 0
    /\ url_success = FALSE
    /\ url_file = <<>>
    /\ l_tries = 0
    /\ l_only_raised = TRUE
    /\ l_last = "none"
    /\ l_save_failures = 0
    /\ l_backoff = 0
    /\ l_offsets = <<>>
    /\ l_failed = FALSE
    /\ l_calls = 1
    /\ d_pc = "off"
    /\ player_urls = <<"u1">>
    /\ max_players = None
    /\ idx = 0
    /\ stats_retries = 0
    /\ stats_success = FALSE
    /\ player_stats = <<>>
    /\ columns = None
    /\ csv_initialized = FALSE
    /\ stats_isfile = FALSE
    /\ stats_file = IF stats_isfile THEN << <<"old_header">>, <<"old_row">> >> ELSE <<>>
    /\ d_attempts = [i \in 1..Len(player_urls) |-> 0]
    /\ d_outcome = [i \in 1..Len(player_urls) |-> "pending"]
    /\ d_save_failures = 0
    /\ d_last = "none"
    /\ d_first = None
    /\ d_empties = 0
    /\ w_pc = "off"
    /\ max_pages = None
    /\ tabs = {"summary"}
    /\ save_storage_state_path = None
    /\ _storage_saved = FALSE
    /\ rows = <<>>
    /\ who_file = <<>>
    /\ w_url = 0
    /\ w_tab = 0
    /\ current_page = 1
    /\ total_pages = None
    /\ paging \in {pg \in PagingStates : ~pg.present}
    /\ w_decision = "none"
    /\ w_nrows = 0
    /\ w_has_next = FALSE
    /\ w_rows_before = 0
    /\ w_advanced = FALSE
    /\ w_clicks = 0
    /\ w_advances = 0
    /\ w_pages = 0
    /\ w_cause = "none"
    /\ c_content = <<>>
    /\ c_verdict = "off"
    /\ x_fn \in Functions
    /\ x_in \in Inputs(x_fn)
    /\ x_out = None

SpecX == X_Init /\ [][X_Next]_vars

\* WhoScoredScraper(...) runs with its default configuration: summary tab,
\* no page ceiling
W_DefaultInit ==
    /\ l_pc = "off"
    /\ all_player_urls = <<>>
    /\ offset = 0
    /\ page_num = 1
    /\ has_next = TRUE
    /\ url_retries = 0
    /\ url_success = FALSE
    /\ url_file = <<>>
    /\ l_tries = 0
    /\ l_only_raised = TRUE
    /\ l_last = "none"
    /\ l_save_failures = 0
    /\ l_backoff = 0
    /\ l_offsets = <<>>
    /\ l_failed = FALSE
    /\ l_calls = 1
    /\ d_pc = "off"
    /\ player_urls = <<"u1">>
    /\ max_players = None
    /\ idx = 0
    /\ stats_retries = 0
    /\ stats_success = FALSE
    /\ player_stats = <<>>
    /\ columns = None
    /\ csv_initialized = FALSE
    /\ stats_isfile = FALSE
    /\ stats_file = IF stats_isfile THEN << <<"old_header">>, <<"old_row">> >> ELSE <<>>
    /\ d_attempts = [i \in 1..Len(player_urls) |-> 0]
    /\ d_outcome = [i \in 1..Len(player_urls) |-> "pending"]
    /\ d_save_failures = 0
    /\ d_last = "none"
    /\ d_first = None
    /\ d_empties = 0
    /\ w_pc = "run_for"
    /\ max_pages = None
    /\ tabs = {"summary"}
    /\ save_storage_state_path = None
    /\ _storage_saved = FALSE
    /\ rows = <<>>
    /\ who_file = <<>>
    /\ w_url = 0
    /\ w_tab = 0
    /\ current_page = 1
    /\ total_pages = None
    /\ paging \in {pg \in PagingStates : ~pg.present}
    /\ w_decision = "none"
    /\ w_nrows = 0
    /\ w_has_next = FALSE
    /\ w_rows_before = 0
    /\ w_advanced = FALSE
    /\ w_clicks = 0
    /\ w_advances = 0
    /\ w_pages = 0
    /\ w_cause = "none"
    /\ c_content = <<>>
    /\ c_verdict = "off"
    /\ x_fn = "off"
    /\ x_in = <<>>
    /\ x_out = None

\* WhoScoredScraper(..., save_storage_state_path="state.json") runs: summary
\* tab, no page ceiling
W_StateInit ==
    /\ l_pc = "off"
    /\ all_player_urls = <<>>
    /\ offset = 0
    /\ page_num = 1
    /\ has_next = TRUE
    /\ url_retries = 0
    /\ url_success = FALSE
    /\ url_file = <<>>
    /\ l_tries = 0
    /\ l_only_raised = TRUE
    /\ l_last = "none"
    /\ l_save_failures = 0
    /\ l_backoff = 0
    /\ l_offsets = <<>>
    /\ l_failed = FALSE
    /\ l_calls = 1
    /\ d_pc = "off"
    /\ player_urls = <<"u1">>
    /\ max_players = None
    /\ idx = 0
    /\ stats_retries = 0
    /\ stats_success = FALSE
    /\ player_stats = <<>>
    /\ columns = None
    /\ csv_initialized = FALSE
    /\ stats_isfile = FALSE
    /\ stats_file = IF stats_isfile THEN << <<"old_header">>, <<"old_row">> >> ELSE <<>>
    /\ d_attempts = [i \in 1..Len(player_urls) |-> 0]
    /\ d_outcome = [i \in 1..Len(player_urls) |-> "pending"]
    /\ d_save_failures = 0
    /\ d_last = "none"
    /\ d_first = None
    /\ d_empties = 0
    /\ w_pc = "run_for"
    /\ max_pages = None
    /\ tabs = {"summary"}
    /\ save_storage_state_path = Some("state.json")
    /\ _storage_saved = FALSE
    /\ rows = <<>>
    /\ who_file = <<>>
    /\ w_url = 0
    /\ w_tab = 0
    /\ current_page = 1
    /\ total_pages = None
    /\ paging \in {pg \in PagingStates : ~pg.present}
    /\ w_decision = "none"
    /\ w_nrows = 0
    /\ w_has_next = FALSE
    /\ w_rows_before = 0
    /\ w_advanced = FALSE
    /\ w_clicks = 0
    /\ w_advances = 0
    /\ w_pages = 0
    /\ w_cause = "none"
    /\ c_content = <<>>
    /\ c_verdict = "off"
    /\ x_fn = "off"
    /\ x_in = <<>>
    /\ x_out = None

SpecWS == W_StateInit /\ [][W_Next]_vars


\* one of the two programs that write records is run
Init == D_Init \/ W_DefaultInit

Next == D_Next \/ W_Next

Spec == Init /\ [][Next]_vars

(***************************************************************************)
(* Properties                                                              *)
(***************************************************************************)

\* C1: a run of the listing scraper always terminates, whatever the pages
\* answer: the pagination loop of scrape_all_player_urls eventually exits.
C1_ListingTerminates == <>(l_pc = "done")

\* C2: in the player-stats scraper a target is fetched at most 5 times, a
\* target that ends as failed was fetched exactly 5 times, and the run goes
\* on to the next target and completes with every target settled.
C2_FailedTargetTriedFiveTimes ==
    /\ [](\A i \in DOMAIN d_outcome :
            /\ d_attempts[i] <= 5
            /\ d_outcome[i] = "failed" => d_attempts[i] = 5)
    /\ [](d_pc = "done" => /\ idx = total
                           /\ \A i \in 1..total : d_outcome[i] # "pending")
    /\ <>(d_pc = "done")

C2_Witness ==
    /\ d_pc = "done"
    /\ total = 2
    /\ d_outcome[1] = "failed"
    /\ d_attempts[1] = 5
    /\ d_outcome[2] = "ok"

\* C3: in the listing scraper a page whose every attempt raises in the fetch
\* is attempted exactly 3 times (fewer than the 5 of a detail page), then
\* pagination stops, and the file holds every URL collected before.
C3_RaisingPageTriedThreeTimes ==
    /\ 3 < stats_max_retries
    /\ l_only_raised => l_tries <= 3
    /\ (l_only_raised /\ l_tries > 0 /\ l_pc # "inner") => (l_tries = 3 /\ ~has_next)
    /\ (l_only_raised /\ l_tries = 3) =>
           /\ Range(all_player_urls) \subseteq Range(url_file)
           /\ all_player_urls # <<>> => url_file = UrlFileRows(all_player_urls)

C3_Witness ==
    /\ l_pc = "done"
    /\ l_only_raised
    /\ l_tries = 3
    /\ offset = page_size
    /\ Len(url_file) > 1

\* C4: in the WhoScored scraper a failure while scraping one URL ends only
\* that URL: when the run is over, every URL of the list has been scraped.
C4_FailureEndsOnlyThatUrl ==
    w_pc \in {"done", "crashed"} => w_url = Len(urls)

\* C5: in the WhoScored scraper no collected row is lost: whenever the run
\* is over, normally or by a failure, every collected row is in the file.
C5_CollectedRowsAreInFile ==
    (w_pc \in {"done", "crashed"} /\ rows # <<>>) => who_file = CsvRows(rows)

\* C6: in the listing scraper no page is fetched after a page whose
\* extraction yielded zero URLs, even if that page reported hasNext = true.
C6_EmptyPageEndsPagination == [][l_last = "empty" => ~L_Attempt]_vars

\* C7: each iteration of the WhoScored tab loop applies the stop conditions
\* in order: zero rows stops before anything is recorded; otherwise the rows
\* are recorded and a reached ceiling stops; otherwise a missing or disabled
\* next control stops; advancement is requested only when none applies.
C7_StopConditionsInOrder ==
    w_decision # "none" =>
        /\ w_nrows = 0 => (w_decision = "zero_rows" /\ Len(rows) = w_rows_before)
        /\ w_nrows > 0 =>
              /\ Len(rows) = w_rows_before + w_nrows
              /\ w_decision =
                    IF max_pages \notin {None, Some(0)} /\ current_page >= max_pages[1]
                    THEN "max_pages"
                    ELSE IF ~w_has_next THEN "no_next" ELSE "advance"
        /\ w_decision = "advance" <=> (w_pc = "click_next" \/ w_clicks > 0)

C7_Witness ==
    /\ w_decision = "max_pages"
    /\ w_has_next
    /\ w_nrows > 0
    /\ w_pc = "tabs"

\* C8: after every advancement request of the WhoScored tab driver that
\* returns without error, the page number read next differs from the page
\* number read before the request.
C8_AdvanceChangesPageNumber ==
    (w_pc = "page" /\ w_advanced) => PageInfo(paging).current # current_page

\* C9: a pagination stall of the WhoScored tab driver is retried: the run
\* fails on a stall only after the advancement was requested again.
C9_StallIsRetried == w_cause = "stall" => w_clicks > 1

\* C10 as stated: past the zero-row and max-page checks the WhoScored tab
\* driver advances exactly when current < total and stops when current >= total.
C10_AdvanceIffCurrentBelowTotal ==
    /\ w_decision = "advance" => current_page < total_pages[1]
    /\ w_decision = "no_next" => current_page >= total_pages[1]

\* C10 as amended: past the zero-row and max-page checks the WhoScored tab
\* driver advances exactly when the paging widget has an enabled next
\* control, and stops exactly when it has none.
C10_AdvanceIffHasNext ==
    /\ w_decision = "advance" => w_has_next
    /\ w_decision = "no_next" => ~w_has_next
    /\ (w_decision \in {"advance", "no_next"} /\ w_pc \in {"click_next", "tabs"}) =>
           (w_has_next <=> paging.present /\ paging.next = "enabled")

C10_Witness ==
    /\ w_decision = "advance"
    /\ w_pc = "click_next"
    /\ current_page >= total_pages[1]

\* C11: with a page ceiling N >= 1 configured, the WhoScored tab driver
\* extracts at most N pages of one tab, whatever the paging widget shows.
C11_AtMostCeilingPagesPerTab ==
    (max_pages # None /\ max_pages[1] >= 1) => w_pages <= max_pages[1]

\* C12: _is_cloudflare_challenge answers Challenge exactly for a content that
\* contains "Checking your browser", "Just a moment", "cf-browser-verification"
\* or "challenge-platform", and the call changes nothing else.
C12_ChallengeIffFingerprint ==
    /\ [](c_verdict \in {"Challenge", "Clear"} =>
            ((c_verdict = "Challenge") <=>
                \/ \E i \in 1..Len(c_content) :
                      c_content[i] \in {"Checking your browser",
                                        "cf-browser-verification",
                                        "challenge-platform"}
                \/ \E i \in 1..(Len(c_content) - 2) :
                      /\ c_content[i] = "Just"
                      /\ c_content[i + 1] = "a"
                      /\ c_content[i + 2] = "moment"))
    /\ [][c_content' = c_content /\ UNCHANGED <<l_vars, d_vars, w_vars>>]_vars

C12_Witness ==
    /\ c_verdict = "Challenge"
    /\ c_content = <<"Just", "a", "moment">>

\* C13: in the listing scraper, an attempt whose snapshot carries a
\* fingerprint of the detector both before and after the grace wait is not an
\* extraction: no step extracts the page on such a pair of snapshots.
C13_PersistentChallengeIsNotExtracted ==
    [][\A before \in Contents : \A after \in AfterGrace(before) :
          (ChallengeDetected(before) /\ ChallengeDetected(after))
             => ~(\E found \in PageResults, hasNext \in BOOLEAN :
                     L_Extract(before, after, found, hasNext))]_vars

\* C14: in the WhoScored scraper without a storage-state path, a URL whose
\* snapshot is a Challenge after goto and still one after the grace wait never
\* goes on to the tab loop.
C14_StillChallengedUrlIsNotScraped ==
    [][\A content \in PageContents, after \in PageContents,
          panel \in {"first", "fallback"} :
          (/\ save_storage_state_path = None
           /\ _is_cloudflare_challenge(content)
           /\ _is_cloudflare_challenge(after))
             => ~(W_ScrapeUrl(TRUE, content, after, panel) /\ w_pc' = "tabs")]_vars

\* C15: on one page of the listing, the first attempt is preceded by no
\* backoff and the k-th retry by a backoff of 2^k seconds (jitter aside).
C15_BackoffDoublesWithinTarget ==
    l_tries \in 1..(TriesCap - 1) =>
        l_backoff = IF l_tries = 1 THEN 0 ELSE 2 ^ (l_tries - 1)

\* C16: a malformed target of the player-stats scraper is fetched at most
\* once: it is skipped without a retry.
C16_MalformedTargetTriedOnce ==
    \A i \in DOMAIN d_attempts : Malformed(player_urls[i]) => d_attempts[i] <= 1

\* C17: after the first save that raised, the player-stats scraper goes on to
\* no further target.
C17_FailedWriteEndsRun == [][d_save_failures > 0 => idx' = idx]_vars

\* C18: a record that reaches the writer while the file can be opened has all
\* its keys in the schema afterwards and is the last row of the file.
C18_NewKeyBecomesColumn ==
    d_last \in {"saved", "row_rejected"} =>
        LET record == player_stats[Len(player_stats)]
        IN  /\ DOMAIN record \subseteq Range(columns)
            /\ stats_file # <<>>
            /\ stats_file[Len(stats_file)] = DictRow(columns, record)

\* C19: the schema is fixed by the first record written to the file: its keys
\* among the priority fields in priority order, then its other keys in
\* lexicographic order, each key once.
C19_SchemaFromFirstPersistedRecord ==
    d_first # None =>
        LET keys == DOMAIN d_first[1]
        IN  columns = SelectSeq(<<"player_id", "name", "url">>,
                                LAMBDA col : col \in keys)
                      \o SelectSeq(<<"alpha", "zeta">>, LAMBDA col : col \in keys)

\* C20: a data row written to player_stats.csv or to the WhoScored CSV holds
\* one value per schema column, in schema order: the record's value, or the
\* empty string where the record has no such key.
C20_RowsHaveOneValuePerColumn ==
    /\ d_last = "saved" =>
          LET record == player_stats[Len(player_stats)]
              row == stats_file[Len(stats_file)]
          IN  /\ Len(row) = Len(columns)
              /\ \A i \in 1..Len(columns) :
                    row[i] = IF columns[i] \in DOMAIN record
                             THEN record[columns[i]] ELSE ""
    /\ (w_pc = "done" /\ rows # <<>>) =>
          /\ Len(who_file) = Len(rows) + 1
          /\ \A k \in 1..Len(rows) :
                LET cols == who_file[1]
                    row == who_file[k + 1]
                IN  /\ Len(row) = Len(cols)
                    /\ \A i \in 1..Len(cols) :
                          row[i] = IF cols[i] \in DOMAIN rows[k]
                                   THEN rows[k][cols[i]] ELSE ""

C20_Witness ==
    /\ d_last = "saved"
    /\ \E i \in 1..Len(columns) : columns[i] \notin DOMAIN player_stats[Len(player_stats)]
    /\ "" \in Range(stats_file[Len(stats_file)])

\* C21: writes to player_stats.csv are append-only: whatever the file held
\* before a step, rows of an earlier run included, is still its beginning
\* after the step.
C21_WritesAreAppendOnly ==
    [][/\ Len(stats_file') >= Len(stats_file)
       /\ SubSeq(stats_file', 1, Len(stats_file)) = stats_file]_vars

\* C22: once save_player_to_csv has been called and player_stats.csv holds
\* rows, its first row is a header row and no other row is one.
C22_OneHeaderRowFirst ==
    (csv_initialized /\ stats_isfile /\ stats_file # <<>>) =>
        /\ stats_file[1] \in {columns, <<"old_header">>}
        /\ \A i \in 2..Len(stats_file) :
              stats_file[i] \notin {columns, <<"old_header">>}

\* C23: no two rows that the player-stats scraper wrote carry the same url,
\* whatever the target list contains.
C23_NoTwoRowsShareUrl ==
    csv_initialized =>
        LET u == CHOOSE k \in 1..Len(columns) : columns[k] = "url"
            written == {i \in 1..Len(stats_file) :
                           /\ stats_file[i] # columns
                           /\ Len(stats_file[i]) = Len(columns)}
        IN  \A i, j \in written : i # j => stats_file[i][u] # stats_file[j][u]

\* C24: after a save_urls_to_csv call that returned, player_urls.csv is the
\* header row 'player_url' followed by every collected URL exactly once, in
\* the order of first occurrence in the collection.
C24_UrlFileIsDistinctUrlsInOrder ==
    l_last \in {"extracted", "empty"} =>
        LET n == Len(url_file)
            FirstAt(u) == CHOOSE k \in 1..Len(all_player_urls) :
                             /\ all_player_urls[k] = u
                             /\ \A m \in 1..(k - 1) : all_player_urls[m] # u
        IN  /\ n >= 1
            /\ url_file[1] = "player_url"
            /\ {url_file[i] : i \in 2..n} = Range(all_player_urls)
            /\ \A i, j \in 2..n : i # j => url_file[i] # url_file[j]
            /\ \A i, j \in 2..n : i < j => FirstAt(url_file[i]) < FirstAt(url_file[j])

C24_Witness ==
    /\ l_last = "extracted"
    /\ Len(all_player_urls) > Len(url_file) - 1
    /\ Len(url_file) = 3

\* C25: when the player-stats scraper goes on to the next target, every
\* record it extracted so far has its row in player_stats.csv.
C25_ExtractedIsPersistedBeforeNextTarget ==
    [][(d_pc = "for" /\ idx >= 1 /\ idx' = idx + 1) =>
          \A k \in 1..Len(player_stats) :
              \E i \in 1..Len(stats_file) :
                  stats_file[i] = DictRow(columns, player_stats[k])]_vars

\* C26: a second call of scrape_all_player_urls on the same object starts
\* from offset 0 with an empty collection.
C26_SecondCallStartsAtInitialCursor ==
    (l_calls >= 2 /\ l_last = "none") => (offset = 0 /\ all_player_urls = <<>>)

\* C27: the pages extracted and saved in one call are those at offsets 0, 60,
\* 120, ... in this order, each once; the offset moves only by 60 and only in
\* a step that extracted and saved the current page; a call without a failed
\* attempt ends after as many fetches as pages, the last page being the first
\* that reported hasNext = false.
C27_OffsetsAreMultiplesOfSixtyInOrder ==
    /\ [](\A i \in 1..Len(l_offsets) : l_offsets[i] = 60 * (i - 1))
    /\ [][offset' # offset =>
             /\ offset' = offset + 60
             /\ url_success'
             /\ l_last' \in {"extracted", "empty"}
             /\ Len(l_offsets') = Len(l_offsets) + 1
             /\ Range(all_player_urls') \subseteq Range(url_file')]_vars
    /\ []((l_pc = "done" /\ ~l_failed) =>
             /\ ~has_next
             /\ Len(l_offsets) = page_num
             /\ offset = 60 * (page_num - 1))

C27_Witness ==
    /\ l_pc = "done"
    /\ ~l_failed
    /\ l_offsets = <<0, 60>>

\* C28: an extraction without a player name is never collected or written:
\* the attempt costs one retry and leaves success unset, and a target whose
\* 5 attempts were all such extractions ends as failed.
C28_EmptyExtractionIsNeverPersisted ==
    /\ [](\A k \in 1..Len(player_stats) : player_stats[k]["name"] # "")
    /\ [][d_empties' = d_empties + 1 =>
             /\ player_stats' = player_stats
             /\ stats_file' = stats_file
             /\ stats_retries' = stats_retries + 1
             /\ ~stats_success']_vars
    /\ []((d_pc \in {"for", "done"} /\ idx >= 1 /\ d_empties = 5) =>
             d_outcome[idx] = "failed")

C28_Witness ==
    /\ d_pc = "for"
    /\ idx >= 1
    /\ d_empties = 5
    /\ d_outcome[idx] = "failed"
    /\ player_stats = <<>>

\* C29: at the end of a run len(player_stats) equals the number of targets
\* that ended in success and the number of data rows the run wrote.
C29_TallyIsExact ==
    d_pc = "done" =>
        /\ Len(player_stats) = Cardinality({i \in 1..total : d_outcome[i] = "ok"})
        /\ Len(player_stats) =
              Cardinality({i \in 1..Len(stats_file) :
                  stats_file[i] \notin {columns, <<"old_header">>, <<"old_row">>}})

\* C30: with max_players = N (N >= 0) at most N targets are fetched and they
\* are the first N of the loaded list; with max_players = None every loaded
\* URL has been fetched when the run ends.
C30_MaxPlayersLimitsTargets ==
    LET fetched == {i \in DOMAIN d_attempts : d_attempts[i] > 0}
    IN  /\ max_players # None =>
              /\ Cardinality(fetched) <= max_players[1]
              /\ \A i \in fetched : i <= max_players[1]
        /\ (max_players = None /\ d_pc = "done") => fetched = DOMAIN d_attempts

\* C31: every MultiIndex column is flattened to a name without a leading, a
\* trailing or a doubled space, whatever its levels are (empty and
\* whitespace-only levels included).
C31_FlattenedNamesAreSingleSpaced ==
    (x_fn = "flatten" /\ x_out # None) =>
        \A i \in 1..Len(x_in) :
            LET name == x_out[1][i]
            IN  "levels" \in DOMAIN x_in[i] =>
                    /\ name = <<>> \/ (name[1] # " " /\ name[Len(name)] # " ")
                    /\ \A j \in 1..(Len(name) - 1) :
                          ~(name[j] = " " /\ name[j + 1] = " ")

\* C32: _dedupe_headers keeps the length and the order of the list, leaves the
\* first occurrence of a name unchanged and renames its k-th occurrence
\* (k >= 2) to name_k.
C32_DedupeNumbersRepeatsInPlace ==
    (x_fn = "dedupe" /\ x_out # None) =>
        /\ Len(x_out[1]) = Len(x_in)
        /\ \A i \in 1..Len(x_in) :
              LET k == Cardinality({j \in 1..i : x_in[j] = x_in[i]})
              IN  x_out[1][i] = IF k = 1 THEN x_in[i] ELSE Suffixed(x_in[i], k)

C32_Witness ==
    /\ x_fn = "dedupe"
    /\ x_in = <<"b", "a", "b", "b">>
    /\ x_out = Some(<<"b", "a", "b_2", "b_3">>)

\* C33: _extract_table_from_div returns None when the div has no comment,
\* when the comment holds no table with the requested id and when the table
\* does not parse; fetch_fbref_tables returns normally and only holds keys of
\* divs whose table was extracted.
C33_MissingTableIsNoneNotAnException ==
    /\ (x_fn = "extract" /\ x_out # None) =>
          LET comments == x_in.div.comments
              wanted(t) == ~Truthy(x_in.table_id) \/ t.id = x_in.table_id[1]
              found == IF comments = <<>> THEN {}
                       ELSE {j \in 1..Len(comments[1]) : wanted(comments[1][j])}
          IN  (\/ comments = <<>>
               \/ found = {}
               \/ comments[1][CHOOSE j \in found : \A m \in found : j <= m].frame = None)
                  => x_out[1] = None
    /\ (x_fn = "fetch" /\ x_out # None /\ x_in.response # None) =>
          /\ x_out[1].kind = "returned"
          /\ \A key \in DOMAIN x_out[1].tables :
                \E i \in 1..Len(x_in.response[1]) :
                    LET div == x_in.response[1][i]
                    IN  /\ div.id = all_ \o key
                        /\ _extract_table_from_div(div, Some(key)) # None

C33_Witness ==
    /\ x_fn = "extract"
    /\ x_in.div.comments = << <<TableTag(T1, FALSE)>> >>
    /\ x_in.table_id = Some(T1)
    /\ x_out = Some(None)

\* C34: with table_id = T the mapping returned by fetch_fbref_tables has no
\* key but T; with table_id omitted its keys are the ids, without their first
\* four characters "all_", of the divs whose table was extracted; it is empty
\* when no table was extracted.
C34_KeysAreTheExtractedDivIds ==
    (x_fn = "fetch" /\ x_out # None /\ x_in.response # None) =>
        LET page      == x_in.response[1]
            tables    == x_out[1].tables
            prefixed(d) == Len(d.id) >= 4 /\ SubSeq(d.id, 1, 4) = <<"a", "l", "l", "_">>
            short(d)  == SubSeq(d.id, 5, Len(d.id))
            extracted == {i \in 1..Len(page) :
                             /\ prefixed(page[i])
                             /\ _extract_table_from_div(page[i], Some(short(page[i]))) # None}
        IN  /\ x_in.table_id # None => DOMAIN tables \subseteq {x_in.table_id[1]}
            /\ x_in.table_id # None =>
                  (DOMAIN tables = {} <=>
                      ~\E i \in extracted : short(page[i]) = x_in.table_id[1])
            /\ x_in.table_id = None =>
                  DOMAIN tables = {short(page[i]) : i \in extracted}

C34_Witness ==
    /\ x_fn = "fetch"
    /\ x_in.table_id = None
    /\ x_out # None
    /\ x_in.response # None
    /\ DOMAIN x_out[1].tables = {T1, T2}

\* C35: main reports every failure through its return value: it returns 0
\* exactly when a table was printed or saved, non-zero otherwise, and no
\* exception leaves it.
C35_MainAlwaysReturnsACode ==
    (x_fn = "main" /\ x_out # None) =>
        /\ x_out[1].kind = "returned"
        /\ x_out[1].code = 0 <=> (x_out[1].saved \cup x_out[1].printed) # {}

\* C36: the names _dedupe_headers returns are pairwise distinct.
C36_DedupedNamesAreDistinct ==
    (x_fn = "dedupe" /\ x_out # None) =>
        \A i \in 1..Len(x_out[1]) : \A j \in 1..Len(x_out[1]) :
            i # j => x_out[1][i] # x_out[1][j]

\* C37: the source_url, tab and page fields of every recorded row are the
\* URL, the tab name and the page number the row was extracted from.
C37_RowsKeepTheirProvenance ==
    (x_fn = "rows" /\ x_out # None) =>
        \A i \in 1..Len(x_out[1]) :
            /\ x_out[1][i].source_url = x_in.source
            /\ x_out[1][i].tab = x_in.tab
            /\ x_out[1][i].page = PageText(x_in.page)

\* C38: when some comment of the div contains a table with the requested id
\* (and every such table parses), _extract_table_from_div returns a table.
C38_TableInAnyCommentIsFound ==
    (x_fn = "extract" /\ x_out # None /\ Truthy(x_in.table_id)) =>
        LET comments == x_in.div.comments
            hits == UNION {{comments[c][j] : j \in 1..Len(comments[c])} :
                              c \in 1..Len(comments)}
            wanted == {t \in hits : t.id = x_in.table_id[1]}
        IN  (wanted # {} /\ \A t \in wanted : t.frame # None) => x_out[1] # None

\* C39: within one run every save of player_urls.csv keeps the rows of the
\* previous save as a prefix: saved URLs never disappear or move.
C39_UrlFileGrowsByAppending ==
    [][url_file # <<>> =>
          /\ Len(url_file') >= Len(url_file)
          /\ SubSeq(url_file', 1, Len(url_file)) = url_file]_vars

C39_Witness ==
    /\ l_last = "extracted"
    /\ Len(l_offsets) >= 2
    /\ Len(url_file) >= 3
    /\ Len(all_player_urls) > Len(url_file) - 1

\* C40: with a storage-state path set, the first URL whose stats panel loads
\* after a solved challenge has the storage state saved, in the first wait as
\* in the fallback wait.
C40_StateSavedWhenPanelLoadsAfterChallenge ==
    [][\A content \in PageContents, after \in PageContents,
          panel \in {"first", "fallback"} :
            (/\ save_storage_state_path # None
             /\ ~_storage_saved
             /\ _is_cloudflare_challenge(content)
             /\ ~_is_cloudflare_challenge(after)
             /\ W_ScrapeUrl(TRUE, content, after, panel))
                => _storage_saved']_vars

====
